---- MODULE Spec2Model ----
(***************************************************************************)
(* A model of gentorrent.py (the bencoding codec, the Metainfo builder,    *)
(* its infohash and magnet link, and the write path of main) and of the    *)
(* write path of seedyourvideo.py (Interface.execution).                   *)
(*                                                                         *)
(* A byte is a one-character string, a bytes object a sequence of bytes;   *)
(* the empty read b'' of a stream at end of input is the empty string "".  *)
(***************************************************************************)
EXTENDS Integers, Sequences, FiniteSets, TLC

\* ------------------------------------------------------------------ bounds
MaxStrLen == 2
MaxInt == 10
MaxElts == 2
MaxDataLen == 5

\* ------------------------------------------------------------------- bytes
\* The bytes the model uses, in ascending byte (ASCII) order.
Ascii ==
    << " ", "%", "-", ".", "/",
       "0", "1", "2", "3", "4", "5", "6", "7", "8", "9", ":",
       "a", "b", "c", "d", "e", "f", "g", "h", "i", "j", "k", "l", "m",
       "n", "o", "p", "q", "r", "s", "t", "u", "v", "w", "x", "y", "z" >>

ByteOrd(c) == CHOOSE i \in 1..Len(Ascii) : Ascii[i] = c

\* digits = b'0123456789'
digits == << "0", "1", "2", "3", "4", "5", "6", "7", "8", "9" >>

\* `x in digits` for x a bytes object of length <= 1: the empty bytes object is
\* a subsequence of every bytes object, so b'' in digits is True.
InDigits(c) == c = "" \/ \E i \in 1..Len(digits) : digits[i] = c

\* int(current) for a digit byte
DigitValue(c) == (CHOOSE i \in 1..Len(digits) : digits[i] = c) - 1

Min(a, b) == IF a < b THEN a ELSE b

\* bytes < bytes: lexicographic on the byte values, a proper prefix first
RECURSIVE BytesLess(_, _)
BytesLess(a, b) ==
    IF b = << >> THEN FALSE
    ELSE IF a = << >> THEN TRUE
    ELSE IF a[1] /= b[1] THEN ByteOrd(a[1]) < ByteOrd(b[1])
    ELSE BytesLess(Tail(a), Tail(b))

\* ("%d" % n).encode('ascii')
RECURSIVE FormatInt(_)
FormatInt(n) ==
    IF n < 0 THEN << "-" >> \o FormatInt(0 - n)
    ELSE IF n < Len(digits) THEN << digits[n + 1] >>
    ELSE FormatInt(n \div Len(digits)) \o << digits[(n % Len(digits)) + 1] >>

\* ------------------------------------------------------------------ values
\* The values bencode takes and bdecode returns: bytes, int, list and dict.
\* A dict is its items in insertion order, each <<key, value>>, keys unique.
PyBytes(s) == [t |-> "bytes", v |-> s]
PyInt(n) == [t |-> "int", v |-> n]
PyList(s) == [t |-> "list", v |-> s]
PyDict(items) == [t |-> "dict", v |-> items]
None == [t |-> "None", v |-> << >>]

Keys(d) == [i \in 1..Len(d.v) |-> d.v[i][1]]
HasKey(d, key) == \E i \in 1..Len(d.v) : d.v[i][1] = key
\* d[key]
DictGet(d, key) == d.v[CHOOSE i \in 1..Len(d.v) : d.v[i][1] = key][2]
\* d[key] = value: an existing key keeps its place and takes the new value
DictSet(d, key, value) ==
    IF HasKey(d, key)
    THEN PyDict([i \in 1..Len(d.v) |->
                 IF d.v[i][1] = key THEN << key, value >> ELSE d.v[i]])
    ELSE PyDict(Append(d.v, << key, value >>))

\* key1 < key2 as sorted() compares the keys of a mapping (bytes with bytes,
\* int with int)
KeyLess(a, b) ==
    IF a.t = "int" /\ b.t = "int" THEN a.v < b.v ELSE BytesLess(a.v, b.v)

RECURSIVE InsertSorted(_, _)
InsertSorted(key, s) ==
    IF s = << >> THEN << key >>
    ELSE IF KeyLess(key, s[1]) THEN << key >> \o s
    ELSE << s[1] >> \o InsertSorted(key, Tail(s))

\* A mutated sorted(): the keys as they come
sortedAsInserted(keys) == keys

\* sorted(data.keys())
RECURSIVE sorted(_)
sorted(keys) ==
    IF keys = << >> THEN << >>
    ELSE InsertSorted(keys[1], sorted(Tail(keys)))

\* ----------------------------------------------------------------- bencode
\* bencode(data, buf): what the call appends to buf. Every recursive call is
\* made with a buf that already holds the b'd' or b'l' of its container, so
\* `if not buf` is true of the outermost call alone.
RECURSIVE bencode(_)
RECURSIVE bencodeItems(_, _)
RECURSIVE bencodeElts(_)

bencodeBytes(data) == FormatInt(Len(data.v)) \o << ":" >> \o data.v

bencodeInt(data) == << "i" >> \o FormatInt(data.v) \o << "e" >>

\* for key in sorted(data.keys()): bencode(key, buf); bencode(data[key], buf)
bencodeItems(data, keys) ==
    IF keys = << >> THEN << >>
    ELSE bencode(keys[1]) \o bencode(DictGet(data, keys[1]))
         \o bencodeItems(data, Tail(keys))

\* for elt in data: bencode(elt, buf)
bencodeElts(elts) ==
    IF elts = << >> THEN << >>
    ELSE bencode(elts[1]) \o bencodeElts(Tail(elts))

bencode(data) ==
    CASE data.t = "bytes" -> bencodeBytes(data)
      [] data.t = "int" -> bencodeInt(data)
      [] data.t = "dict" ->
            << "d" >> \o bencodeItems(data, sorted(Keys(data))) \o << "e" >>
      [] data.t = "list" -> << "l" >> \o bencodeElts(data.v) \o << "e" >>

\* ----------------------------------------------------------------- bdecode
\* A BytesIO stream is the data and the position of its next byte (from 1).
\* data.read(1): the next byte, or b'' at end of input
Read1(data, pos) == IF pos <= Len(data) THEN data[pos] ELSE ""
\* data.read(n), n >= 0: at most n bytes
ReadN(data, pos, n) == SubSeq(data, pos, Min(pos + n - 1, Len(data)))
\* the position after data.read(n)
Advance(data, pos, n) == Min(pos + n, Len(data) + 1)

Returned(val, pos) == [ok |-> TRUE, err |-> "", val |-> val, pos |-> pos]
Raised(err, pos) == [ok |-> FALSE, err |-> err, val |-> None, pos |-> pos]

\* while current and current in digits: n *= 10; n += int(current);
\*                                      current = data.read(1)
RECURSIVE ReadNumber(_, _, _, _)
ReadNumber(data, pos, n, current) ==
    IF current /= "" /\ InDigits(current)
    THEN ReadNumber(data, Advance(data, pos, 1),
                    n * Len(digits) + DigitValue(current), Read1(data, pos))
    ELSE [n |-> n, current |-> current, pos |-> pos]

\* A mutated string branch: the bytes that remain are returned though fewer
\* than the declared length
auxStringTruncating(data, pos, magic) ==
    LET r == ReadNumber(data, pos, 0, magic)
    IN  IF r.current /= ":" THEN Raised("ValueError", r.pos)
        ELSE Returned(PyBytes(ReadN(data, r.pos, r.n)),
                      Advance(data, r.pos, r.n))

\* aux, `magic in digits`: a string
auxString(data, pos, magic) ==
    LET r == ReadNumber(data, pos, 0, magic)
        s == ReadN(data, r.pos, r.n)
    IN  IF r.current /= ":" THEN Raised("ValueError", r.pos)
        ELSE IF Len(s) /= r.n
             THEN Raised("ValueError", Advance(data, r.pos, r.n))
        ELSE Returned(PyBytes(s), Advance(data, r.pos, r.n))

\* aux, magic == b'i': an int
auxInt(data, pos) ==
    LET r == ReadNumber(data, Advance(data, pos, 1), 0, Read1(data, pos))
    IN  IF r.current /= "e" THEN Raised("ValueError", r.pos)
        ELSE Returned(PyInt(r.n), r.pos)

\* hash(key) of d[key] = value: a list or a dict is unhashable
Hashable(key) == key.t \in {"bytes", "int"}

RECURSIVE aux(_, _, _)
RECURSIVE auxDictLoop(_, _, _, _)
RECURSIVE auxListLoop(_, _, _, _)

\* while current and current != b'e': key = aux(data, current);
\*     value = aux(data); d[key] = value; current = data.read(1)
auxDictLoop(data, pos, d, current) ==
    IF current /= "" /\ current /= "e"
    THEN LET key == aux(data, pos, current)
         IN  IF ~key.ok THEN key
             ELSE LET value == aux(data, key.pos, "")
                  IN  IF ~value.ok THEN value
                      ELSE IF ~Hashable(key.val)
                           THEN Raised("TypeError", value.pos)
                      ELSE auxDictLoop(data, Advance(data, value.pos, 1),
                                       DictSet(d, key.val, value.val),
                                       Read1(data, value.pos))
    ELSE IF current /= "e" THEN Raised("ValueError", pos)
    ELSE Returned(d, pos)

\* while current and current != b'e': l.append(aux(data, current));
\*     current = data.read(1)
auxListLoop(data, pos, l, current) ==
    IF current /= "" /\ current /= "e"
    THEN LET elt == aux(data, pos, current)
         IN  IF ~elt.ok THEN elt
             ELSE auxListLoop(data, Advance(data, elt.pos, 1),
                              PyList(Append(l.v, elt.val)),
                              Read1(data, elt.pos))
    ELSE IF current /= "e" THEN Raised("ValueError", pos)
    ELSE Returned(l, pos)

\* aux(data, magic=None); magic0 = "" stands for None and for b'', which
\* `if not magic` treats alike
aux(data, pos0, magic0) ==
    LET magic == IF magic0 = "" THEN Read1(data, pos0) ELSE magic0
        pos == IF magic0 = "" THEN Advance(data, pos0, 1) ELSE pos0
    IN  IF InDigits(magic) THEN auxString(data, pos, magic)
        ELSE IF magic = "i" THEN auxInt(data, pos)
        ELSE IF magic = "d"
             THEN auxDictLoop(data, Advance(data, pos, 1), PyDict(<< >>),
                              Read1(data, pos))
        ELSE IF magic = "l"
             THEN auxListLoop(data, Advance(data, pos, 1), PyList(<< >>),
                              Read1(data, pos))
        ELSE Raised("ValueError", pos)

\* bdecode(data, offset=0): data = BytesIO(data); return aux(data). The body
\* never reads offset: the stream starts at its first byte.
bdecode(data, offset) == aux(data, 1, "")

\* a == b on two values: dicts are equal when they hold the same items,
\* whatever their order
RECURSIVE PyEq(_, _)
PyEq(a, b) ==
    IF a.t /= b.t THEN FALSE
    ELSE IF a.t = "list"
         THEN /\ Len(a.v) = Len(b.v)
              /\ \A i \in 1..Len(a.v) : PyEq(a.v[i], b.v[i])
    ELSE IF a.t = "dict"
         THEN /\ Len(a.v) = Len(b.v)
              /\ \A i \in 1..Len(a.v) :
                    /\ HasKey(b, a.v[i][1])
                    /\ PyEq(a.v[i][2], DictGet(b, a.v[i][1]))
    ELSE a.v = b.v

\* ------------------------------------------------------------ codec inputs
SeqsUpTo(S, n) == UNION {[1..k -> S] : k \in 0..n}

\* Bytes of the values encoded: a letter, and bytes the encoding itself uses
ValueBytes == {"a", "1", ":", "e"}
\* Bytes of the inputs decoded
DataBytes == {"1", "2", ":", "i", "e", "l", "d", "a"}

\* A string whose length takes two decimal digits
LongString == [i \in 1..(Len(digits) + MaxStrLen) |-> "a"]

Leaves ==
    {PyBytes(s) : s \in SeqsUpTo(ValueBytes, MaxStrLen) \cup {LongString}}
    \cup {PyInt(n) : n \in (0 - MaxInt)..MaxInt}
InnerLeaves ==
    {PyBytes(<< >>), PyBytes(<< "1", ":" >>), PyInt(0), PyInt(0 - MaxInt)}
KeyStrings ==
    {PyBytes(<< >>), PyBytes(<< "a" >>), PyBytes(<< "a", "b" >>),
     PyBytes(<< "b" >>)}

ListsOf(S, n) == {PyList(l) : l \in SeqsUpTo(S, n)}
\* dicts of at most n items, in every insertion order
DictsOf(K, S, n) ==
    {PyDict(items) :
        items \in {s \in SeqsUpTo(K \X S, n) :
                     \A i, j \in 1..Len(s) : i /= j => s[i][1] /= s[j][1]}}

Containers == ListsOf(InnerLeaves, MaxElts) \cup DictsOf(KeyStrings, InnerLeaves, MaxElts)
Nested == ListsOf(Containers, 1) \cup DictsOf(KeyStrings, Containers, 1)
Values == Leaves \cup Containers \cup Nested

Inputs == SeqsUpTo(DataBytes, MaxDataLen)

\* ------------------------------------------------------------ Metainfo keys
\* The keys b"announce", b"announce-list", ... of the metainfo structure
Key_announce == PyBytes(<< "a", "n", "n", "o", "u", "n", "c", "e" >>)
Key_announce_list ==
    PyBytes(<< "a", "n", "n", "o", "u", "n", "c", "e", "-", "l", "i", "s", "t" >>)
Key_nodes == PyBytes(<< "n", "o", "d", "e", "s" >>)
Key_httpseeds == PyBytes(<< "h", "t", "t", "p", "s", "e", "e", "d", "s" >>)
Key_url_list == PyBytes(<< "u", "r", "l", "-", "l", "i", "s", "t" >>)
Key_creation_date ==
    PyBytes(<< "c", "r", "e", "a", "t", "i", "o", "n", " ", "d", "a", "t", "e" >>)
Key_comment == PyBytes(<< "c", "o", "m", "m", "e", "n", "t" >>)
Key_created_by ==
    PyBytes(<< "c", "r", "e", "a", "t", "e", "d", " ", "b", "y" >>)
Key_info == PyBytes(<< "i", "n", "f", "o" >>)
Key_piece_length ==
    PyBytes(<< "p", "i", "e", "c", "e", " ", "l", "e", "n", "g", "t", "h" >>)
Key_private == PyBytes(<< "p", "r", "i", "v", "a", "t", "e" >>)
Key_name == PyBytes(<< "n", "a", "m", "e" >>)
Key_length == PyBytes(<< "l", "e", "n", "g", "t", "h" >>)
Key_md5sum == PyBytes(<< "m", "d", "5", "s", "u", "m" >>)
Key_files == PyBytes(<< "f", "i", "l", "e", "s" >>)
Key_path == PyBytes(<< "p", "a", "t", "h" >>)
Key_pieces == PyBytes(<< "p", "i", "e", "c", "e", "s" >>)
Key_root_hash == PyBytes(<< "r", "o", "o", "t", " ", "h", "a", "s", "h" >>)
\* fullname = "%s %s" % (name, version)
fullname == << "g", "e", "n", "t", "o", "r", "r", "e", "n", "t", " ", "1", ".", "0" >>

\* ----------------------------------------------------------------- digests
\* A digest is modelled as injective: it is its input between two marks, so
\* two digests are equal exactly when their inputs are.  A unit of `pieces`
\* is one digest (20 bytes in the code, whatever its input).
sha1_digest(x) == << "sha1(" >> \o x \o << ")" >>
sha1_hexdigest(x) == << "sha1hex(" >> \o x \o << ")" >>
md5_hexdigest(x) == << "md5hex(" >> \o x \o << ")" >>
\* 20 * b"\0"
ZeroPadding == << "zero20" >>
\* The number of bytes a chunk digest was computed over
CoveredBytes(unit) == Len(unit) - Len(sha1_digest(<< >>))

RECURSIVE Flatten(_)
Flatten(units) ==
    IF units = << >> THEN << >> ELSE units[1] \o Flatten(Tail(units))

\* ------------------------------------------------------- builder bounds
MaxFiles == 3
MaxFileLen == 2
MaxPieceLength == 3
\* piece_length=256*1024
DefaultPieceLength == 262144

\* ------------------------------------------------------------ file system
\* The root path: a file, a directory or neither.  lens are the lengths of
\* its files in the order os.walk yields them; unreadable is the index of the
\* file open() fails on (0: none).  The bytes of the files are successive
\* slices of one stream of letters, so a byte tells its place in the
\* concatenation.
Letters == SubSeq(Ascii, ByteOrd("a"), ByteOrd("z"))
StreamByte(k) == Letters[((k - 1) % Len(Letters)) + 1]

RECURSIVE Sum(_)
Sum(lens) == IF lens = << >> THEN 0 ELSE lens[1] + Sum(Tail(lens))

Content(fs0, i) ==
    [k \in 1..fs0.lens[i] |-> StreamByte(Sum(SubSeq(fs0.lens, 1, i - 1)) + k)]
Concatenation(fs0) == [k \in 1..Sum(fs0.lens) |-> StreamByte(k)]
\* path.relpath(filename, dirname).split(os_sep)
RelPath(i) == << << "f", digits[i + 1] >> >>

\* The root path, by components, and path.basename(path.normpath(filename))
RootPath == << << "d" >>, << "r" >> >>
Basename(p) == p[Len(p)]
FileSystems ==
    {[kind |-> "missing", lens |-> << >>, unreadable |-> 0]}
    \cup {[kind |-> "file", lens |-> << n >>, unreadable |-> u] :
            n \in 0..(MaxFiles * MaxFileLen), u \in 0..1}
    \cup {f \in [kind : {"dir"}, lens : SeqsUpTo(0..MaxFileLen, MaxFiles),
                 unreadable : 0..MaxFiles] : f.unreadable <= Len(f.lens)}

\* The roots of at most two files and two bytes
SmallFileSystems ==
    {f \in FileSystems : Len(f.lens) <= 2 /\ Sum(f.lens) <= 2}

\* f.read(n) at offset fpos (bytes already read): n < 0 reads to the end
FileRead(content, fpos, n) ==
    IF n < 0 THEN SubSeq(content, fpos + 1, Len(content))
    ELSE SubSeq(content, fpos + 1, Min(fpos + n, Len(content)))

\* ---------------------------------------------------------------- options
Tracker1 == << "t", "/", "1" >>
Tracker2 == << "t", "/", "2" >>
Mirror1 == << "u", ":", "1" >>
Mirror2 == << "u", ":", "2" >>
\* The keyword arguments that describe no content.  << >> stands for None
\* and for an empty list or bytes, which the code's truth tests treat alike.
Hints ==
    { [announce |-> << >>, nodes |-> << >>, httpseeds |-> << >>,
       url_list |-> << >>, comment |-> << >>],
      [announce |-> << << Tracker1 >> >>, nodes |-> << >>,
       httpseeds |-> << >>, url_list |-> << Mirror1 >>,
       comment |-> << "c" >>],
      [announce |-> << << Tracker1, Tracker2 >> >>,
       nodes |-> << << << "h" >>, 1 >> >>, httpseeds |-> << >>,
       url_list |-> << >>, comment |-> << >>],
      [announce |-> << << Tracker1 >>, << Tracker2 >> >>,
       nodes |-> << << << "g" >>, 2 >> >>,
       httpseeds |-> << << "s" >> >>, url_list |-> << Mirror1, Mirror2 >>,
       comment |-> << >>] }
NoHints == CHOOSE h \in Hints : h.announce = << >> /\ h.comment = << >>
\* Interface.execution: announce=[[the entry's text]]
GuiHints ==
    {h \in Hints : h.announce = << << Tracker1 >> >>}

PieceLengths == ((0 - 1)..MaxPieceLength) \cup {DefaultPieceLength}
Times == {1, 2}

Options ==
    [piece_length : PieceLengths, private : BOOLEAN, md5sum : BOOLEAN,
     merkle : BOOLEAN, hints : Hints]

BytesList(l) == PyList([i \in 1..Len(l) |-> PyBytes(l[i])])
AnnounceValue(a) == PyList([i \in 1..Len(a) |-> BytesList(a[i])])
NodesValue(n) ==
    PyList([i \in 1..Len(n) |->
              PyList(<< PyBytes(n[i][1]), PyInt(n[i][2]) >>)])

\* Metainfo.__init__, lines 282-302: the keys set before the info dictionary
TopLevel(o, t) ==
    LET h == o.hints
        m1 == IF h.announce /= << >>
              THEN DictSet(PyDict(<< >>), Key_announce,
                           PyBytes(h.announce[1][1]))
              ELSE PyDict(<< >>)
        m2 == IF h.announce /= << >>
                 /\ (Len(h.announce[1]) > 1 \/ Len(h.announce) > 1)
              THEN DictSet(m1, Key_announce_list, AnnounceValue(h.announce))
              ELSE m1
        m3 == IF h.nodes /= << >>
              THEN DictSet(m2, Key_nodes, NodesValue(h.nodes)) ELSE m2
        m4 == IF h.httpseeds /= << >>
              THEN DictSet(m3, Key_httpseeds, BytesList(h.httpseeds)) ELSE m3
        m5 == IF h.url_list /= << >>
              THEN DictSet(m4, Key_url_list, BytesList(h.url_list)) ELSE m4
        m6 == DictSet(m5, Key_creation_date, PyInt(t))
        m7 == IF h.comment /= << >>
              THEN DictSet(m6, Key_comment, PyBytes(h.comment)) ELSE m6
    IN  DictSet(m7, Key_created_by, PyBytes(fullname))

\* Metainfo.__init__, lines 302-308: the info dictionary before the content
InfoHead(o) ==
    LET i1 == DictSet(PyDict(<< >>), Key_piece_length, PyInt(o.piece_length))
        i2 == IF o.private THEN DictSet(i1, Key_private, PyInt(1)) ELSE i1
    IN  DictSet(i2, Key_name, PyBytes(Basename(RootPath)))

\* self, the Metainfo dict: the keys of lines 283-300 and self[b"info"],
\* which is the object the name info stands for
Self(o, t, i) == DictSet(TopLevel(o, t), Key_info, i)

\* ---------------------------------------------------------------- chunking
\* A mutated iteration of the single-file loop: no test for the empty read,
\* so an empty chunk is hashed when the length is a multiple of piece_length
SingleIterationHashingEmpty(content, fpos, piece_length, pcs) ==
    LET chunk == FileRead(content, fpos, piece_length)
    IN  [pieces |-> Append(pcs, sha1_digest(chunk)),
         fpos |-> fpos + Len(chunk),
         chunk |-> chunk,
         break |-> Len(chunk) < piece_length]

\* One iteration of `while True` of the single-file branch (lines 314-324)
SingleIteration(content, fpos, piece_length, pcs) ==
    LET chunk == FileRead(content, fpos, piece_length)
    IN  [pieces |-> IF Len(chunk) = 0 THEN pcs
                    ELSE Append(pcs, sha1_digest(chunk)),
         fpos |-> fpos + Len(chunk),
         chunk |-> IF Len(chunk) = 0 THEN << >> ELSE chunk,
         break |-> Len(chunk) = 0 \/ Len(chunk) < piece_length]

\* The single-file loop run to its end on a file of the given content
RECURSIVE SingleFilePieces(_, _, _, _)
SingleFilePieces(content, fpos, piece_length, pcs) ==
    LET it == SingleIteration(content, fpos, piece_length, pcs)
    IN  IF it.break THEN it.pieces
        ELSE SingleFilePieces(content, it.fpos, piece_length, it.pieces)

\* A mutated iteration of the directory loop: a full piece_length is read
\* whatever the incomplete chunk already holds
MultiIterationFullRead(content, fpos, piece_length, pcs, incomplete) ==
    LET chunk == FileRead(content, fpos, piece_length)
    IN  IF Len(chunk) = 0
        THEN [pieces |-> pcs, incomplete_chunk |-> incomplete,
              fpos |-> fpos, chunk |-> << >>, break |-> TRUE]
        ELSE IF Len(incomplete) + Len(chunk) < piece_length
        THEN [pieces |-> pcs, incomplete_chunk |-> incomplete \o chunk,
              fpos |-> fpos + Len(chunk), chunk |-> chunk, break |-> TRUE]
        ELSE [pieces |-> Append(pcs, sha1_digest(incomplete \o chunk)),
              incomplete_chunk |-> << >>,
              fpos |-> fpos + Len(chunk), chunk |-> chunk, break |-> FALSE]

\* One iteration of `while True` of the directory branch (lines 341-356);
\* chunk is what md5sum.update is given
MultiIteration(content, fpos, piece_length, pcs, incomplete) ==
    LET chunk == FileRead(content, fpos, piece_length - Len(incomplete))
    IN  IF Len(chunk) = 0
        THEN [pieces |-> pcs, incomplete_chunk |-> incomplete,
              fpos |-> fpos, chunk |-> << >>, break |-> TRUE]
        ELSE IF Len(incomplete) + Len(chunk) < piece_length
        THEN [pieces |-> pcs, incomplete_chunk |-> incomplete \o chunk,
              fpos |-> fpos + Len(chunk), chunk |-> chunk, break |-> TRUE]
        ELSE [pieces |-> Append(pcs, sha1_digest(incomplete \o chunk)),
              incomplete_chunk |-> << >>,
              fpos |-> fpos + Len(chunk), chunk |-> chunk, break |-> FALSE]

\* ----------------------------------------------------------- Merkle tree
\* for i in range(0, len(pieces) // 2, 20):
\*     pieces[i:i + 20] = sha1(pieces[2*i:2*i + 40]).digest()
\* from the k-th unit on, in place
RECURSIVE HashPairs(_, _)
HashPairs(units, k) ==
    IF k > Len(units) \div 2 THEN units
    ELSE HashPairs([units EXCEPT
                      ![k] = sha1_digest(units[2 * k - 1] \o units[2 * k])],
                   k + 1)

\* A mutated iteration: the padding of level 0 serves every level
MerkleIterationZeroPadding(units, pad) ==
    LET padded == IF Len(units) % 2 /= 0 THEN Append(units, pad) ELSE units
        hashed == HashPairs(padded, 1)
    IN  [pieces |-> SubSeq(hashed, 1, Len(hashed) \div 2),
         padding |-> pad]

\* One iteration of `while len(pieces) > 20` (lines 370-384)
MerkleIteration(units, pad) ==
    LET padded == IF Len(units) % 2 /= 0 THEN Append(units, pad) ELSE units
        hashed == HashPairs(padded, 1)
    IN  [pieces |-> SubSeq(hashed, 1, Len(hashed) \div 2),
         padding |-> sha1_digest(pad \o pad)]

\* ------------------------------------------------------------ magnet link
\* quote_via of urlencode: letters, digits, '.', '-' and '_' stay, every
\* other byte becomes %XX
Quote1(c) ==
    CASE c = "/" -> << "%", "2", "F" >>
      [] c = ":" -> << "%", "3", "A" >>
      [] c = " " -> << "+" >>
      [] OTHER -> << c >>
RECURSIVE Quote(_)
Quote(s) == IF s = << >> THEN << >> ELSE Quote1(s[1]) \o Quote(Tail(s))

RECURSIVE FlattenTiers(_)
FlattenTiers(tiers) ==
    IF tiers = << >> THEN << >> ELSE tiers[1] \o FlattenTiers(Tail(tiers))

\* urlencode(params, doseq=True): a key of a list value is repeated once per
\* element; the result is the "key=value" pairs that '&' joins
Repeat(key, l) == [i \in 1..Len(l) |-> << key, Quote(l[i]) >>]

\* Metainfo.magnet, given self.name, self.length, self.infohash,
\* self.announce and self.url_list.  The infohash is a str of
\* hexadecimal digits, which quoting leaves as they are.
magnet(name, length, hash, announce, url_list) ==
    [scheme |-> "magnet:?",
     params |->
        << << "dn", Quote(name) >> >>
        \o (IF length.t = "int" /\ length.v /= 0
            THEN << << "xl", Quote(FormatInt(length.v)) >> >> ELSE << >>)
        \o << << "xt", hash >> >>
        \o Repeat("tr", FlattenTiers(announce))
        \o Repeat("as", url_list)]
NoLink == [scheme |-> "", params |-> << >>]

\* ------------------------------------------------------------------- state
VARIABLES
    value,      \* the value handed to bencode (None when bytes are given)
    data,       \* the bytes handed to bdecode
    result,     \* what bdecode returned or raised
    cpc,        \* "value", "encoded", "decoded"; "idle" outside the codec runs
    offset,     \* the offset argument of bdecode
    fs,         \* the root path on disk
    opts,       \* the arguments of Metainfo(...)
    now,        \* int(time())
    caller,     \* "lib": Metainfo called directly; "cli": main; "gui":
                \* Interface.execution
    dest,       \* the output file: "absent" or "old" before the run, "empty"
                \* once open(infoname, 'wb') created or truncated it,
                \* "written" after infofile.write
    pc,         \* where the run is
    info,       \* self[b"info"]
    pieces,     \* the bytearray of digests, one unit per digest
    incomplete_chunk,
    md5sum,     \* the md5sum argument (on) and the md5 object it is rebound
                \* to (acc: the bytes fed to it)
    filedict,
    fileno,     \* how many files of the walk are done
    fpos,       \* how many bytes of the open file are read
    padding,
    leaves,     \* pieces as the chunking left it, before the Merkle loop
    length,     \* self.length
    infohash,   \* self.__infohash (<< >>: None)
    link,       \* what magnet() returned
    first,      \* the earlier Metainfo of a second build
    rpc,        \* where each reader of metainfo.infohash is
    computed,   \* the digest a reader has computed and not stored yet
    got         \* what the property returned to a reader

codecVars == << value, data, result, cpc, offset >>
inputVars == << fs, opts, now, caller >>
loopVars == << pieces, incomplete_chunk, md5sum, filedict, fileno, fpos >>
treeVars == << padding, leaves >>
outVars == << length, infohash, link >>
readerVars == << rpc, computed, got >>
buildVars ==
    << inputVars, dest, pc, info, loopVars, treeVars, outVars, first,
       readerVars >>
vars == << codecVars, buildVars >>

NoResult == Raised("", 0)
NoMd5 == [on |-> FALSE, acc |-> << >>]
\* The defaults of Metainfo's keyword arguments
IdleOptions ==
    [piece_length |-> DefaultPieceLength, private |-> FALSE,
     md5sum |-> FALSE, merkle |-> FALSE, hints |-> NoHints]
NoFirst ==
    [built |-> FALSE, opts |-> IdleOptions, now |-> 0, infohash |-> << >>]

\* The threads that read metainfo.infohash of one Metainfo
MaxReaders == 3
Readers == 1..MaxReaders
\* no reader has touched the property
ReadersIdle ==
    /\ rpc = [r \in Readers |-> "idle"]
    /\ computed = [r \in Readers |-> << >>]
    /\ got = [r \in Readers |-> << >>]

\* The locals of Metainfo.__init__ before the call
Fresh ==
    /\ ReadersIdle
    /\ info = PyDict(<< >>)
    /\ pieces = << >>
    /\ incomplete_chunk = << >>
    /\ md5sum = NoMd5
    /\ filedict = PyDict(<< >>)
    /\ fileno = 0
    /\ fpos = 0
    /\ padding = << >>
    /\ leaves = << >>
    /\ length = None
    /\ infohash = << >>
    /\ link = NoLink

CodecIdle ==
    /\ value = None
    /\ data = << >>
    /\ result = NoResult
    /\ cpc = "idle"
    /\ offset = 0

BuildIdle ==
    /\ fs = [kind |-> "missing", lens |-> << >>, unreadable |-> 0]
    /\ opts = IdleOptions
    /\ now = 0
    /\ caller = "idle"
    /\ dest = "absent"
    /\ pc = "idle"
    /\ first = NoFirst
    /\ Fresh

\* Interface.execution: Metainfo(self.filename, announce=self.announce,
\* private=True), the path one the file dialog returned
GuiOptions ==
    {o \in Options : /\ o.piece_length = DefaultPieceLength
                     /\ o.private /\ ~o.md5sum /\ ~o.merkle
                     /\ o.hints \in GuiHints}
\* main: `if prog_args.piece_length:` leaves the default in place of 0
CliOptions == {o \in Options : o.piece_length /= 0}

\* Metainfo(filename, piece_length=..., md5sum=..., merkle=...) called on
\* any root
Init ==
    /\ CodecIdle
    /\ fs \in FileSystems
    /\ opts \in {o \in Options : ~o.private /\ o.hints = NoHints}
    /\ now = 1
    /\ caller = "lib"
    /\ dest = "absent"
    /\ pc = "call"
    /\ first = NoFirst
    /\ Fresh

\* main and Interface.execution started on a small root
InitMain ==
    /\ CodecIdle
    /\ fs \in SmallFileSystems
    /\ now = 1
    /\ dest \in {"absent", "old"}
    /\ pc = "main"
    /\ first = NoFirst
    /\ Fresh
    /\ \/ /\ caller = "cli"
          /\ opts \in CliOptions
       \/ /\ caller = "gui"
          /\ fs.kind /= "dir"
          /\ opts \in GuiOptions

\* Metainfo called with any arguments on a small root that can be read
InitTwo ==
    /\ CodecIdle
    /\ fs \in {f \in SmallFileSystems : f.unreadable = 0}
    /\ opts \in Options
    /\ now = 1
    /\ caller = "lib"
    /\ dest = "absent"
    /\ pc = "call"
    /\ first = NoFirst
    /\ Fresh

\* ------------------------------------------------------------- codec runs
InitCodec ==
    /\ BuildIdle
    /\ result = NoResult
    /\ offset = 0
    /\ \/ /\ value \in Values
          /\ data = << >>
          /\ cpc = "value"
       \/ /\ value = None
          /\ data \in Inputs
          /\ cpc = "encoded"

\* data = bencode(value)
Encode ==
    /\ cpc = "value"
    /\ data' = bencode(value)
    /\ cpc' = "encoded"
    /\ UNCHANGED << value, result, offset, buildVars >>

\* result = bdecode(data), offset left to its default, or
\* result = bdecode(data, offset)
Decode ==
    /\ cpc = "encoded"
    /\ result' = bdecode(data, offset)
    /\ cpc' = "decoded"
    /\ UNCHANGED << value, data, offset, buildVars >>

NextCodec == Encode \/ Decode

SpecCodec == InitCodec /\ [][NextCodec]_vars

\* bdecode(data, offset) called on any bytes with any offset within them
InitOffset ==
    /\ BuildIdle
    /\ result = NoResult
    /\ value = None
    /\ data \in Inputs
    /\ offset \in 0..Len(data)
    /\ cpc = "encoded"

NextOffset == Decode

SpecOffset == InitOffset /\ [][NextOffset]_vars

\* ------------------------------------------------------------- the build
\* main, line 506, and Interface.execution, line 43:
\* `with open(infoname, 'wb') as infofile:` creates or truncates the file
\* before Metainfo is called
OpenOutput ==
    /\ pc = "main"
    /\ dest' = "empty"
    /\ pc' = "call"
    /\ UNCHANGED << codecVars, readerVars, inputVars, info, loopVars, treeVars,
                    outVars, first >>

\* Metainfo.__init__, lines 282-308
Construct ==
    /\ pc = "call"
    /\ info' = InfoHead(opts)
    /\ md5sum' = [on |-> opts.md5sum, acc |-> << >>]
    /\ pc' = "dispatch"
    /\ UNCHANGED << codecVars, readerVars, inputVars, dest, pieces, incomplete_chunk,
                    filedict, fileno, fpos, treeVars, outVars, first >>

\* lines 309-313: path.isfile(filename); open(filename, mode='rb') raises on
\* a file that cannot be read
OpenSingle ==
    /\ pc = "dispatch"
    /\ fs.kind = "file"
    /\ info' = DictSet(info, Key_length, PyInt(fs.lens[1]))
    /\ md5sum' = [md5sum EXCEPT !.acc = << >>]
    /\ fpos' = 0
    /\ pc' = IF fs.unreadable = 1 THEN "raised" ELSE "single"
    /\ UNCHANGED << codecVars, readerVars, inputVars, dest, pieces, incomplete_chunk,
                    filedict, fileno, treeVars, outVars, first >>

\* lines 314-326: one iteration of the loop; on break, the md5sum of the file
ReadSingle ==
    /\ pc = "single"
    /\ LET it == SingleIteration(Content(fs, 1), fpos, opts.piece_length,
                                 pieces)
           acc == IF md5sum.on THEN md5sum.acc \o it.chunk ELSE md5sum.acc
       IN  /\ pieces' = it.pieces
           /\ fpos' = it.fpos
           /\ md5sum' = [md5sum EXCEPT !.acc = acc]
           /\ info' = IF it.break /\ md5sum.on
                      THEN DictSet(info, Key_md5sum,
                                   PyBytes(md5_hexdigest(acc)))
                      ELSE info
           /\ pc' = IF it.break THEN "aggregate" ELSE "single"
    /\ UNCHANGED << codecVars, readerVars, inputVars, dest, incomplete_chunk, filedict,
                    fileno, treeVars, outVars, first >>

\* lines 327-331: path.isdir(filename)
EnterDirectory ==
    /\ pc = "dispatch"
    /\ fs.kind = "dir"
    /\ info' = DictSet(info, Key_files, PyList(<< >>))
    /\ incomplete_chunk' = << >>
    /\ pc' = "walk"
    /\ UNCHANGED << codecVars, readerVars, inputVars, dest, pieces, md5sum, filedict,
                    fileno, fpos, treeVars, outVars, first >>

\* lines 309 and 327: neither a file nor a directory, no branch is taken
NoContent ==
    /\ pc = "dispatch"
    /\ fs.kind = "missing"
    /\ pc' = "aggregate"
    /\ UNCHANGED << codecVars, readerVars, inputVars, dest, info, loopVars,
                    treeVars, outVars, first >>

\* lines 333-340: the next file of the walk
OpenNext ==
    /\ pc = "walk"
    /\ fileno < Len(fs.lens)
    /\ filedict' = DictSet(DictSet(PyDict(<< >>), Key_path,
                                   BytesList(RelPath(fileno + 1))),
                           Key_length, PyInt(fs.lens[fileno + 1]))
    /\ md5sum' = [md5sum EXCEPT !.acc = << >>]
    /\ fpos' = 0
    /\ pc' = IF fs.unreadable = fileno + 1 THEN "raised" ELSE "multi"
    /\ UNCHANGED << codecVars, readerVars, inputVars, dest, info, pieces,
                    incomplete_chunk, fileno, treeVars, outVars, first >>

\* lines 341-359: one iteration of the loop; on break, the md5sum of the file
\* and files.append(filedict)
ReadMulti ==
    /\ pc = "multi"
    /\ LET it == MultiIteration(Content(fs, fileno + 1), fpos,
                                opts.piece_length, pieces, incomplete_chunk)
           acc == IF md5sum.on THEN md5sum.acc \o it.chunk ELSE md5sum.acc
           fd == IF md5sum.on
                 THEN DictSet(filedict, Key_md5sum,
                              PyBytes(md5_hexdigest(acc)))
                 ELSE filedict
           files == DictGet(info, Key_files)
       IN  /\ pieces' = it.pieces
           /\ incomplete_chunk' = it.incomplete_chunk
           /\ fpos' = it.fpos
           /\ md5sum' = [md5sum EXCEPT !.acc = acc]
           /\ filedict' = IF it.break THEN fd ELSE filedict
           /\ info' = IF it.break
                      THEN DictSet(info, Key_files,
                                   PyList(Append(files.v, fd)))
                      ELSE info
           /\ fileno' = IF it.break THEN fileno + 1 ELSE fileno
           /\ pc' = IF it.break THEN "walk" ELSE "multi"
    /\ UNCHANGED << codecVars, readerVars, inputVars, dest, treeVars, outVars, first >>

\* lines 360-362: the incomplete chunk left when the walk is over
Flush ==
    /\ pc = "walk"
    /\ fileno = Len(fs.lens)
    /\ pieces' = IF incomplete_chunk /= << >>
                 THEN Append(pieces, sha1_digest(incomplete_chunk))
                 ELSE pieces
    /\ pc' = "aggregate"
    /\ UNCHANGED << codecVars, readerVars, inputVars, dest, info,
                    incomplete_chunk, md5sum, filedict, fileno, fpos,
                    treeVars, outVars, first >>

\* lines 363-366: `if merkle:` and the first padding
EnterMerkle ==
    /\ pc = "aggregate"
    /\ opts.merkle
    /\ padding' = ZeroPadding
    /\ leaves' = pieces
    /\ pc' = "merkle"
    /\ UNCHANGED << codecVars, readerVars, inputVars, dest, info, loopVars,
                    outVars, first >>

\* lines 369-384: one level of the tree
MerkleLevel ==
    /\ pc = "merkle"
    /\ Len(pieces) > 1
    /\ LET it == MerkleIteration(pieces, padding)
       IN  /\ pieces' = it.pieces
           /\ padding' = it.padding
    /\ UNCHANGED << codecVars, readerVars, inputVars, dest, pc, info,
                    incomplete_chunk, md5sum, filedict, fileno, fpos, leaves,
                    outVars, first >>

\* self.length of lines 393-396
LengthOf(i) == IF HasKey(i, Key_length) THEN DictGet(i, Key_length) ELSE None

\* lines 385 and 389-396
StoreRoot ==
    /\ pc = "merkle"
    /\ Len(pieces) <= 1
    /\ info' = DictSet(info, Key_root_hash, PyBytes(Flatten(pieces)))
    /\ length' = LengthOf(info')
    /\ infohash' = << >>
    /\ pc' = "built"
    /\ UNCHANGED << codecVars, readerVars, inputVars, dest, loopVars, treeVars, link,
                    first >>

\* lines 386-396
StorePieces ==
    /\ pc = "aggregate"
    /\ ~opts.merkle
    /\ info' = DictSet(info, Key_pieces, PyBytes(Flatten(pieces)))
    /\ leaves' = pieces
    /\ length' = LengthOf(info')
    /\ infohash' = << >>
    /\ pc' = "built"
    /\ UNCHANGED << codecVars, readerVars, inputVars, dest, loopVars, padding, link,
                    first >>

\* A mutated infohash: the digest of the whole encoded Metainfo
InfohashOfSelf(cached, i) ==
    IF cached = << >> THEN sha1_hexdigest(bencode(Self(opts, now, i)))
    ELSE cached

\* Metainfo.infohash, lines 398-402
InfohashOf(cached, i) ==
    IF cached = << >> THEN sha1_hexdigest(bencode(i)) ELSE cached

\* a read of metainfo.infohash by the caller of Metainfo
ReadInfohash ==
    /\ pc = "built"
    /\ caller = "lib"
    /\ infohash = << >>
    /\ infohash' = InfohashOf(infohash, info)
    /\ UNCHANGED << codecVars, readerVars, inputVars, dest, pc, info, loopVars,
                    treeVars, length, link, first >>

\* main, line 508, and Interface.execution, line 45:
\* infofile.write(bencode(metainfo))
WriteOutput ==
    /\ pc = "built"
    /\ caller \in {"cli", "gui"}
    /\ data' = bencode(Self(opts, now, info))
    /\ dest' = "written"
    /\ pc' = "written"
    /\ UNCHANGED << value, result, cpc, offset, inputVars, info, loopVars,
                    treeVars, outVars, first, readerVars >>

\* metainfo.magnet(): by main, line 509, once the file is written, or by the
\* caller of Metainfo
Magnet ==
    /\ \/ pc = "built" /\ caller = "lib"
       \/ pc = "written" /\ caller = "cli"
    /\ link = NoLink
    /\ infohash' = InfohashOf(infohash, info)
    /\ link' = magnet(DictGet(info, Key_name).v, length, infohash',
                      opts.hints.announce, opts.hints.url_list)
    /\ UNCHANGED << codecVars, readerVars, inputVars, dest, pc, info, loopVars,
                    treeVars, length, first >>

\* A second Metainfo of the same root: other hints and time, or one other
\* argument among piece_length, private, md5sum and merkle
Variants(o) ==
    {v \in Options :
        \/ /\ v.piece_length = o.piece_length /\ v.private = o.private
           /\ v.md5sum = o.md5sum /\ v.merkle = o.merkle
        \/ /\ v.hints = o.hints
           /\ Cardinality({f \in {"piece_length", "private", "md5sum",
                                  "merkle"} : v[f] /= o[f]}) = 1}

Rebuild ==
    /\ pc = "built"
    /\ infohash /= << >>
    /\ ~first.built
    /\ first' = [built |-> TRUE, opts |-> opts, now |-> now,
                 infohash |-> infohash]
    /\ opts' \in Variants(opts)
    /\ now' \in Times
    /\ pc' = "call"
    /\ info' = PyDict(<< >>)
    /\ pieces' = << >>
    /\ incomplete_chunk' = << >>
    /\ md5sum' = NoMd5
    /\ filedict' = PyDict(<< >>)
    /\ fileno' = 0
    /\ fpos' = 0
    /\ padding' = << >>
    /\ leaves' = << >>
    /\ length' = None
    /\ infohash' = << >>
    /\ link' = NoLink
    /\ UNCHANGED << codecVars, readerVars, fs, caller, dest >>

Build ==
    \/ Construct
    \/ OpenSingle
    \/ ReadSingle
    \/ EnterDirectory
    \/ NoContent
    \/ OpenNext
    \/ ReadMulti
    \/ Flush
    \/ EnterMerkle
    \/ MerkleLevel
    \/ StoreRoot
    \/ StorePieces

\* Metainfo.infohash read by several threads: the steps of one read
\* line 400: `if not self.__infohash:`
Cached(cached) == cached /= << >>
\* line 401, right-hand side: sha1(bencode(self.info)).hexdigest()
ComputeInfohash(i) == sha1_hexdigest(bencode(i))
\* A mutated store: the digest is bound to a local, the attribute is kept
StoreInfohashDropped(cached, digest) == cached
\* line 401, the assignment: self.__infohash = <the digest>
StoreInfohash(cached, digest) == digest

ReaderCheck(r) ==
    /\ pc = "built"
    /\ caller = "lib"
    /\ rpc[r] = "idle"
    /\ rpc' = [rpc EXCEPT ![r] = IF Cached(infohash) THEN "return"
                                 ELSE "compute"]
    /\ UNCHANGED << codecVars, inputVars, dest, pc, info, loopVars,
                    treeVars, outVars, first, computed, got >>

ReaderCompute(r) ==
    /\ rpc[r] = "compute"
    /\ computed' = [computed EXCEPT ![r] = ComputeInfohash(info)]
    /\ rpc' = [rpc EXCEPT ![r] = "store"]
    /\ UNCHANGED << codecVars, inputVars, dest, pc, info, loopVars,
                    treeVars, outVars, first, got >>

ReaderStore(r) ==
    /\ rpc[r] = "store"
    /\ infohash' = StoreInfohash(infohash, computed[r])
    /\ rpc' = [rpc EXCEPT ![r] = "return"]
    /\ UNCHANGED << codecVars, inputVars, dest, pc, info, loopVars,
                    treeVars, length, link, first, computed, got >>

\* line 402: return self.__infohash
ReaderReturn(r) ==
    /\ rpc[r] = "return"
    /\ got' = [got EXCEPT ![r] = infohash]
    /\ rpc' = [rpc EXCEPT ![r] = "done"]
    /\ UNCHANGED << codecVars, inputVars, dest, pc, info, loopVars,
                    treeVars, outVars, first, computed >>

Read ==
    \E r \in Readers :
        \/ ReaderCheck(r)
        \/ ReaderCompute(r)
        \/ ReaderStore(r)
        \/ ReaderReturn(r)

\* Metainfo called on a small root that can be read, then read by the
\* threads
InitReaders ==
    /\ CodecIdle
    /\ fs \in {f \in SmallFileSystems : f.unreadable = 0}
    /\ opts \in {o \in Options :
                    ~o.private /\ ~o.md5sum /\ o.hints = NoHints}
    /\ now = 1
    /\ caller = "lib"
    /\ dest = "absent"
    /\ pc = "call"
    /\ first = NoFirst
    /\ Fresh

Next == Build \/ ReadInfohash \/ Magnet
NextReaders == Build \/ Read
NextMain == Build \/ OpenOutput \/ WriteOutput \/ Magnet
NextTwo == Build \/ ReadInfohash \/ Rebuild

\* Metainfo called as a library
Spec == Init /\ [][Next]_vars
\* the programs: main and Interface.execution
SpecMain == InitMain /\ [][NextMain]_vars
\* two Metainfo of one root
SpecTwo == InitTwo /\ [][NextTwo]_vars
\* one Metainfo whose infohash several threads read
SpecReaders == InitReaders /\ [][NextReaders]_vars

\* ------------------------------------------------------- codec claims
\* C1: for every constructible value v, bdecode(bencode(v)) returns a value
\* equal to v.
RoundTrip ==
    (cpc = "decoded" /\ value.t /= "None")
        => (result.ok /\ PyEq(result.val, value))

\* The round trip of the values that hold no negative integer.
RECURSIVE HasNegative(_)
HasNegative(v) ==
    CASE v.t = "int" -> v.v < 0
      [] v.t = "list" -> \E i \in 1..Len(v.v) : HasNegative(v.v[i])
      [] v.t = "dict" -> \E i \in 1..Len(v.v) : HasNegative(v.v[i][2])
      [] OTHER -> FALSE

RoundTripNonNegative ==
    (cpc = "decoded" /\ value.t /= "None" /\ ~HasNegative(value))
        => (result.ok /\ PyEq(result.val, value))

\* ---------------------------------------------------------------- C6
AllDigits(s) == \A i \in 1..Len(s) : s[i] /= "" /\ InDigits(s[i])

RECURSIVE DecimalValue(_)
DecimalValue(s) ==
    IF s = << >> THEN 0
    ELSE DecimalValue(SubSeq(s, 1, Len(s) - 1)) * Len(digits)
         + DigitValue(s[Len(s)])

\* The grammar of one encoded element, with the leniencies of the decoder
\* (leading zeros, an integer of no digits, keys of any kind in any order):
\*   string  <digits>:<as many bytes as the digits say>
\*   int     i<digits>e
\*   list    l<elements>e
\*   dict    d<key element, value element, ...>e
RECURSIVE WellFormed(_)
RECURSIVE WellFormedElements(_)
RECURSIVE WellFormedItems(_)

WellFormed(s) ==
    /\ Len(s) >= 2
    /\ \/ \E k \in 1..(Len(s) - 1) :
            /\ AllDigits(SubSeq(s, 1, k))
            /\ s[k + 1] = ":"
            /\ Len(s) - (k + 1) = DecimalValue(SubSeq(s, 1, k))
       \/ /\ s[1] = "i"
          /\ s[Len(s)] = "e"
          /\ AllDigits(SubSeq(s, 2, Len(s) - 1))
       \/ /\ s[1] = "l"
          /\ s[Len(s)] = "e"
          /\ WellFormedElements(SubSeq(s, 2, Len(s) - 1))
       \/ /\ s[1] = "d"
          /\ s[Len(s)] = "e"
          /\ WellFormedItems(SubSeq(s, 2, Len(s) - 1))

WellFormedElements(s) ==
    \/ s = << >>
    \/ \E k \in 1..Len(s) :
          /\ WellFormed(SubSeq(s, 1, k))
          /\ WellFormedElements(SubSeq(s, k + 1, Len(s)))

WellFormedItems(s) ==
    \/ s = << >>
    \/ \E k \in 1..Len(s) : \E j \in (k + 1)..Len(s) :
          /\ WellFormed(SubSeq(s, 1, k))
          /\ WellFormed(SubSeq(s, k + 1, j))
          /\ WellFormedItems(SubSeq(s, j + 1, Len(s)))

\* No element starts the input: a string without its ':' or with fewer bytes
\* than declared, an integer without its 'e', a list or dict without its
\* closing 'e', a dict key without a value, or a byte that starts no element.
Malformed(s) == ~ \E k \in 1..Len(s) : WellFormed(SubSeq(s, 1, k))

\* C6: bdecode of a malformed input fails with an error and returns no value.
DecodeRejectsMalformed ==
    (cpc = "decoded" /\ value.t = "None" /\ Malformed(data))
        => (~result.ok /\ result.err /= "" /\ result.val = None)

\* b"d1:ae": the key b"a" is followed by the closing 'e', and bdecode raised
DictKeyWithoutValueRejected ==
    /\ cpc = "decoded"
    /\ data = << "d", "1", ":", "a", "e" >>
    /\ Malformed(data)
    /\ ~result.ok

\* ---------------------------------------------------------------- C7
InsertionOrders(n) ==
    {f \in [1..n -> 1..n] : \A i, j \in 1..n : i /= j => f[i] /= f[j]}

\* The values that hold the items of v, each dict of v (at every depth) in
\* any insertion order
RECURSIVE Reorderings(_)
Reorderings(v) ==
    LET n == Len(v.v)
        Inner(i) == Reorderings(IF v.t = "dict" THEN v.v[i][2] ELSE v.v[i])
        choices == {g \in [1..n -> UNION {Inner(i) : i \in 1..n}] :
                      \A i \in 1..n : g[i] \in Inner(i)}
    IN  CASE v.t = "dict" ->
               {PyDict([i \in 1..n |-> << v.v[f[i]][1], g[f[i]] >>]) :
                  f \in InsertionOrders(n), g \in choices}
          [] v.t = "list" -> {PyList(g) : g \in choices}
          [] OTHER -> {v}

\* The keys of every dict of v are in strictly ascending byte order, in the
\* order the items were added
RECURSIVE KeysAscending(_)
KeysAscending(v) ==
    CASE v.t = "dict" ->
            /\ \A i \in 1..(Len(v.v) - 1) :
                  BytesLess(v.v[i][1].v, v.v[i + 1][1].v)
            /\ \A i \in 1..Len(v.v) : KeysAscending(v.v[i][2])
      [] v.t = "list" -> \A i \in 1..Len(v.v) : KeysAscending(v.v[i])
      [] OTHER -> TRUE

\* C7: the encoding of a value is the encoding of each of its reorderings, and
\* the items of every dict appear in the output in ascending key order (the
\* decoder adds the items in the order it reads them).
CanonicalMapOrdering ==
    /\ (cpc /= "value" /\ value.t /= "None")
          => \A w \in Reorderings(value) : bencode(w) = data
    /\ (cpc = "decoded" /\ value.t /= "None" /\ result.ok)
          => KeysAscending(result.val)

\* A dict of two keys inserted in descending order, inside a dict, is encoded
NestedUnsortedDictEncoded ==
    /\ cpc = "decoded"
    /\ result.ok
    /\ value.t = "dict"
    /\ Len(value.v) = 1
    /\ value.v[1][2].t = "dict"
    /\ Len(value.v[1][2].v) = 2
    /\ BytesLess(value.v[1][2].v[2][1].v, value.v[1][2].v[1][1].v)
    /\ Cardinality(Reorderings(value)) > 1

\* ----------------------------------------------------- builder claims
PieceLength == opts.piece_length
TotalLength == Sum(fs.lens)

\* C2: for a content of N >= 1 bytes and a chunk size L >= 1, read from one
\* file or from the files of a directory, the chunking leaves floor(N/L)
\* digests over exactly L bytes each, then one over N mod L bytes exactly when
\* N mod L /= 0: ceil(N/L) digests, none over zero bytes.
ChunkingExact ==
    (pc = "aggregate" /\ fs.kind \in {"file", "dir"}
        /\ PieceLength >= 1 /\ TotalLength >= 1)
    => LET full == TotalLength \div PieceLength
           rest == TotalLength % PieceLength
       IN  /\ Len(pieces) = full + (IF rest /= 0 THEN 1 ELSE 0)
           /\ \A i \in 1..full : CoveredBytes(pieces[i]) = PieceLength
           /\ rest /= 0 => CoveredBytes(pieces[full + 1]) = rest
           /\ \A i \in 1..Len(pieces) : CoveredBytes(pieces[i]) > 0

\* a file of exactly 3 * L bytes is chunked into 3 digests
ExactMultipleChunked ==
    /\ pc = "aggregate"
    /\ fs.kind = "file"
    /\ PieceLength >= 1
    /\ TotalLength = 3 * PieceLength
    /\ Len(pieces) = 3

\* C3: for a chunk size L >= 1 (the chunker takes a positive L), the digests
\* of a directory are those the single-file loop computes on one file that
\* holds the bytes of its files in the order of the walk.
ChunksOverConcatenation ==
    (pc = "aggregate" /\ fs.kind = "dir" /\ PieceLength >= 1)
    => pieces = SingleFilePieces(Concatenation(fs), 0, PieceLength, << >>)

\* three files of one byte and L = 3: one chunk spans the three files
ChunkSpansThreeFiles ==
    /\ pc = "aggregate"
    /\ fs.kind = "dir"
    /\ fs.lens = << 1, 1, 1 >>
    /\ PieceLength = 3
    /\ pieces = << sha1_digest(<< "a", "b", "c" >>) >>

\* The binary reduction, level by level: an odd level takes the padding of
\* the level, every pair (a, b) becomes digest(a || b), and the padding of
\* the next level is digest(padding || padding).
RECURSIVE ReferenceRoot(_, _)
ReferenceRoot(units, pad) ==
    IF Len(units) = 1 THEN units[1]
    ELSE LET padded == IF Len(units) % 2 = 1 THEN units \o << pad >>
                       ELSE units
         IN  ReferenceRoot(
                 [k \in 1..(Len(padded) \div 2) |->
                     sha1_digest(padded[2 * k - 1] \o padded[2 * k])],
                 sha1_digest(pad \o pad))

\* C4: of n >= 1 digests the Merkle loop leaves exactly one, the root of the
\* binary reduction; it is h1 for [h1], digest(h1 || h2) for [h1, h2], and
\* for [h1, h2, h3] the third digest is paired with the padding of level 0.
TreeReduction ==
    (pc = "built" /\ opts.merkle /\ Len(leaves) >= 1)
    => /\ Len(pieces) = 1
       /\ pieces[1] = ReferenceRoot(leaves, ZeroPadding)
       /\ DictGet(info, Key_root_hash) = PyBytes(pieces[1])
       /\ ~HasKey(info, Key_pieces)
       /\ Len(leaves) = 1 => pieces[1] = leaves[1]
       /\ Len(leaves) = 2 => pieces[1] = sha1_digest(leaves[1] \o leaves[2])
       /\ Len(leaves) = 3 =>
             pieces[1] = sha1_digest(
                 sha1_digest(leaves[1] \o leaves[2])
                 \o sha1_digest(leaves[3] \o ZeroPadding))

\* five digests: level 0 and level 1 are both odd and both padded
FiveLeavesReduced ==
    /\ pc = "built"
    /\ opts.merkle
    /\ Len(leaves) = 5
    /\ Len(pieces) = 1

SameDescriptorOptions(a, b) ==
    /\ a.piece_length = b.piece_length
    /\ a.private = b.private
    /\ a.md5sum = b.md5sum
    /\ a.merkle = b.merkle

\* C5: of two Metainfo of one root, built with the same piece_length,
\* private, md5sum and merkle, the infohash is the same whatever the comment,
\* the announce tiers, the nodes, the seeds, the mirrors and the creation
\* time; built with another piece_length and nothing else changed, the
\* infohash is another.
IdentifierStable ==
    (first.built /\ pc = "built" /\ infohash /= << >>)
    => /\ SameDescriptorOptions(first.opts, opts)
            => infohash = first.infohash
       /\ (/\ first.opts.piece_length /= opts.piece_length
           /\ first.opts.private = opts.private
           /\ first.opts.md5sum = opts.md5sum
           /\ first.opts.merkle = opts.merkle
           /\ first.opts.hints = opts.hints
           /\ first.now = now)
            => infohash /= first.infohash

\* two Metainfo that differ in every hint and in the creation time
SecondBuildOtherHints ==
    /\ first.built
    /\ pc = "built"
    /\ infohash /= << >>
    /\ SameDescriptorOptions(first.opts, opts)
    /\ first.now /= now
    /\ first.opts.hints.announce /= opts.hints.announce
    /\ first.opts.hints.comment /= opts.hints.comment
    /\ first.opts.hints.url_list /= opts.hints.url_list
    /\ first.opts.hints.nodes /= opts.hints.nodes
    /\ first.opts.hints.httpseeds /= opts.hints.httpseeds

\* The locator of the claim: xl present exactly for a single file
ExpectedParams ==
    << << "dn", Quote(Basename(RootPath)) >> >>
    \o (IF fs.kind = "file"
        THEN << << "xl", Quote(FormatInt(fs.lens[1])) >> >> ELSE << >>)
    \o << << "xt", sha1_hexdigest(bencode(info)) >> >>
    \o Repeat("tr", FlattenTiers(opts.hints.announce))
    \o Repeat("as", opts.hints.url_list)

\* C8: magnet() returns the scheme and then the display name, the total
\* length exactly when the root is a single file (of any length, 0 too), the
\* infohash, one tracker parameter per tracker of every tier in order, and
\* one mirror parameter per mirror.
LocatorFormat ==
    link /= NoLink
    => link = [scheme |-> "magnet:?", params |-> ExpectedParams]

\* The same, for the roots that are not an empty file.
LocatorFormatNonEmpty ==
    (link /= NoLink /\ ~(fs.kind = "file" /\ fs.lens[1] = 0))
    => link = [scheme |-> "magnet:?", params |-> ExpectedParams]

\* C9: the output file is created or changed only once the whole Metainfo is
\* built, and a failed build leaves it as it was.
NoPartialArtifacts ==
    /\ dest \in {"empty", "written"} => pc \in {"built", "written"}
    /\ pc = "raised" => dest \in {"absent", "old"}

\* C10: Metainfo of a root that is neither a file nor a directory raises, and
\* returns no Metainfo.
MissingRootFails ==
    fs.kind = "missing" => pc \notin {"aggregate", "merkle", "built", "written"}

\* C11: Metainfo called with a piece_length of 0 or less, or on a directory
\* that holds no file, raises and builds no Metainfo, and no Metainfo of a
\* file or a directory is built with an empty pieces or root hash.
InvalidOptionsRejected ==
    /\ (/\ fs.kind \in {"file", "dir"}
        /\ \/ PieceLength <= 0
           \/ (fs.kind = "dir" /\ fs.lens = << >>))
       => pc /= "built"
    /\ (pc = "built" /\ fs.kind \in {"file", "dir"}) => pieces /= << >>

\* C12: bdecode(data, offset) returns what bdecode returns on the bytes of
\* data from position offset on (data without its first offset bytes): the
\* same value, or an error where that decoding is an error.
DecodeStartsAtOffset ==
    (cpc = "decoded" /\ value = None)
    => LET rest == bdecode(SubSeq(data, offset + 1, Len(data)), 0)
       IN  /\ result.ok = rest.ok
           /\ result.ok => PyEq(result.val, rest.val)

\* C13: whatever the interleaving of the readers' steps (the test of the
\* cached value, the computation, the store, the return), every reader of
\* metainfo.infohash gets the hexadecimal digest of bencode(info), the same
\* for all, and a cached value, once stored, never changes.
MemoizedUnderRaces ==
    /\ [](\A r \in Readers :
            rpc[r] = "done" => got[r] = sha1_hexdigest(bencode(info)))
    /\ [][infohash /= << >> => infohash' = infohash]_vars

\* two readers both missed the cache: one has returned, the other is about
\* to store its own digest over the cached one
StoreAfterReturn ==
    \E r1, r2 \in Readers :
        /\ r1 /= r2
        /\ rpc[r1] = "done"
        /\ computed[r1] /= << >>
        /\ rpc[r2] = "store"
        /\ infohash /= << >>

====
